---- MODULE Spec2Model ----
(***************************************************************************)
(* deepviz: the Deep Research poll coordinator, GenaiResearchClient.Execute *)
(* (create -> poll -> save, with the deferred compensation cancel), as a    *)
(* state machine over a discrete clock.                                     *)
(*                                                                          *)
(* Time is counted in seconds.  The clock advances only while the           *)
(* coordinator is blocked: in the select with no case ready, or inside a    *)
(* remote call.  A goroutine with a ready select case, or between two       *)
(* statements, takes its step before the clock moves.                       *)
(* The poll interval is positive (time.NewTicker panics otherwise).         *)
(***************************************************************************)
EXTENDS Integers, Sequences, FiniteSets, TLC

\* ---------------------------------------------------------------- bounds
MaxCreateDelay == 1
MaxInterval == 2
MaxTimeout == 3
MaxOverrun == 1
\* The latest second the clock reaches before the compensation call.
MaxTime == MaxCreateDelay + MaxTimeout + MaxOverrun

\* ------------------------------------------------------ program constants
\* context.WithTimeout(context.Background(), 10*time.Second)
CancelTimeout == 10

NoTime == 0 - 1

\* The identifier the remote service assigns to the job it creates.
RemoteJobID == "job-1"

\* Status values of the remote job: absent, running, three the remote never
\* leaves; only "completed" and "failed" are known to the client.
Statuses == {"", "in_progress", "cancelled", "completed", "failed"}
RemoteTerminal == {"cancelled", "completed", "failed"}

\* Text the status response carries for a completed job ("" : no text output).
Contents == {"", "report"}

\* What CreateInteractionWithBodyWithResponse can come back with.
CreateResponses == {"neterr", "non200", "nobody", "emptyid", "ok"}
\* What GetInteractionByIdWithResponse can come back with.
StatusResponseKinds == {"neterr", "non200", "nobody", "ok"}
\* What CancelInteractionByIdWithResponse can come back with.
CancelResponses == {"neterr", "non200", "ok"}

VARIABLES
    pollInterval,   \* config.PollInterval
    pollTimeout,    \* config.PollTimeout
    pc,             \* where Execute is
    now,            \* the clock
    ctxCancelled,   \* the caller's ctx is done
    createSent,     \* the create request left the process
    remoteExists,   \* the remote service holds the job
    remoteStatus,   \* the job's status on the remote service
    interactionID,  \* Execute's local interactionID
    success,        \* Execute's local success flag
    nextTick,       \* when the ticker fires next
    tickPending,    \* ticker.C holds a tick (buffer of one)
    deadline,       \* when the time.After channel fires
    statusSent,     \* the status request in flight left the process
    statusCalls,    \* checkStatus calls issued
    inProgressSeen, \* status responses handled as "in progress"
    lastResp,       \* the last status response
    pollResult,     \* what pollUntilComplete returned to Execute
    result,         \* Execute's returned *ResearchResult
    err,            \* Execute's returned error
    cancelCalls,    \* cancelResearch calls issued
    cancelTarget,   \* the interaction the cancel call names
    cancelCtx,      \* the context the cancel call runs under
    cancelResp,     \* what the cancel call came back with
    fileContent,    \* the markdown file on disk
    writeResult,    \* what WriteFile returned to saveResult
    prompt,         \* Execute's prompt argument
    sentInput,      \* the "input" field of the create request body
    resanitized,    \* sanitizePrompt applied to the sanitized prompt
    pollStart,      \* when pollUntilComplete was entered
    pollEnd,        \* when pollUntilComplete returned
    slowStatus,     \* a status call was outstanding while the clock moved
    failedAtCalls,  \* statusCalls when "failed" was observed
    ctxFired,       \* the caller's cancellation fired; during polling: when,
                    \* whether the select was waiting, statusCalls then
    environ,        \* the process environment: variable name -> value
    configFile,     \* config.yaml in the config directory
    config,         \* what NewViperConfig returned
    cmdline,        \* the workflow flags on the command line, in order
    opts,           \* the flag variables / Options the pipeline runs with
    pipe,            \* RunWithConfig: where it is, its stage calls, its return
    outputs,        \* the output collection of a status response
    content,         \* the content checkStatus extracted from it
    inv,            \* the concurrent Execute invocations: each one's locals
    jobs,           \* the jobs the remote service holds, by identifier
    files           \* the research files on disk, by timestamp

vars == <<pollInterval, pollTimeout, pc, now, ctxCancelled, createSent,
          remoteExists, remoteStatus, interactionID, success, nextTick,
          tickPending, deadline, statusSent, statusCalls, inProgressSeen,
          lastResp, pollResult, result, err, cancelCalls, cancelTarget,
          cancelCtx, cancelResp, fileContent, writeResult, prompt, sentInput,
          resanitized, pollStart, pollEnd, slowStatus, failedAtCalls, ctxFired,
          environ, configFile, config,
          cmdline, opts, pipe,
          outputs, content,
          inv, jobs, files>>

\* the variables of one Execute call
execVars == <<pollInterval, pollTimeout, pc, now, ctxCancelled, createSent,
              remoteExists, remoteStatus, interactionID, success, nextTick,
              tickPending, deadline, statusSent, statusCalls, inProgressSeen,
              lastResp, pollResult, result, err, cancelCalls, cancelTarget,
              cancelCtx, cancelResp, fileContent, writeResult, prompt,
              sentInput, resanitized, pollStart, pollEnd, slowStatus,
              failedAtCalls, ctxFired>>
loadVars == <<environ, configFile, config>>
pipeVars == <<cmdline, opts, pipe>>
extractVars == <<outputs, content>>
concVars == <<inv, jobs, files>>
\* what lies outside one Execute call
auxVars == <<loadVars, pipeVars, extractVars, concVars>>

configVars == <<pollInterval, pollTimeout>>
saveVars == <<fileContent, writeResult>>
promptVars == <<prompt, sentInput, resanitized>>
remoteVars == <<remoteExists, remoteStatus>>
timerVars == <<nextTick, tickPending, deadline>>
cancelVars == <<cancelCalls, cancelTarget, cancelCtx, cancelResp>>
histVars == <<pollStart, pollEnd, slowStatus, failedAtCalls, ctxFired>>

\* ---------------------------------------------------------------- values
NoResult ==
    [nil |-> TRUE, InteractionID |-> "", Status |-> "", Content |-> "",
     MarkdownPath |-> ""]

NoErr == [phase |-> "none", kind |-> "nil", jobID |-> "", seconds |-> NoTime]

NoResp == [kind |-> "none", status |-> ""]

NoCtx == [parent |-> "none", live |-> FALSE, deadline |-> NoTime]

NoFile == "<absent>"

\* filepath.Join(c.config.ResearchDir(), timestamp+".md")
MarkdownPath == "research/ts.md"

\* fmt.Errorf("failed to start research: %w", err), by what startResearch met
StartErr(r) ==
    [phase |-> "start",
     kind |-> CASE r = "neterr" -> "transport"
               [] r = "non200" -> "api"
               [] r = "nobody" -> "emptybody"
               [] OTHER -> "emptyid",
     jobID |-> "", seconds |-> NoTime]

\* fmt.Errorf("failed to poll research: %w", err), by what pollUntilComplete
\* returned: ctx.Err(), the timeout, a checkStatus error, "research failed".
PollErr(kind, id, secs) ==
    [phase |-> "poll", kind |-> kind, jobID |-> id, seconds |-> secs]

StatusErrKind(r) ==
    CASE r = "neterr" -> "transport"
      [] r = "non200" -> "statuscode"
      [] OTHER -> "emptybody"

\* The job identifier a checkStatus error's text holds: the transport error of
\* the http client names the request URL, whose path ends in the identifier;
\* "unexpected status code" and "empty response body" name nothing.
StatusErrJobID(r) == IF r = "neterr" THEN interactionID ELSE ""

\* (bug variant) saveResult's error is dropped
SaveErrSwallowed == NoErr

\* fmt.Errorf("failed to save result: %w", err)
SaveErr == [phase |-> "save", kind |-> "persist", jobID |-> "", seconds |-> NoTime]

\* ------------------------------------------------------ prompt sanitizing
\* A prompt is a Go string: a sequence of bytes, not necessarily valid UTF-8.
\* The longest prompt drawn.
MaxPromptLen == 3

\* The bytes prompts are drawn from: NUL, TAB, 'a', and the UTF-8 lead and
\* continuation bytes 0x85, 0xBD, 0xBF, 0xC2, 0xEF.  They spell, among others,
\* U+0085 (C2 85), U+00BF (C2 BF), U+FF45 (EF BD 85), U+FFFD (EF BF BD),
\* U+FFFF (EF BF BF), U+F145 (EF 85 85), and ill-formed sequences.
PromptBytes == {0, 9, 97, 133, 189, 191, 194, 239}

\* utf8.RuneError, U+FFFD: what decoding yields for an ill-formed byte
RuneError == 65533

\* a sequence no string is equal to: "not computed yet"
NoInput == <<0 - 1>>

\* the prompt of the coordinator runs: 'a', NUL, TAB, and a lone 0xEF
MainPrompt == <<97, 0, 9, 239>>

RECURSIVE SeqsUpTo(_, _)
SeqsUpTo(S, n) ==
    IF n = 0 THEN {<<>>}
    ELSE LET shorter == SeqsUpTo(S, n - 1)
         IN shorter \cup {Append(q, b) : q \in {x \in shorter : Len(x) = n - 1}, b \in S}

Prompts == SeqsUpTo(PromptBytes, MaxPromptLen)

\* a UTF-8 continuation byte in lo..hi
InRange(b, lo, hi) == b >= lo /\ b <= hi

\* The first rune of the non-empty string s and its width in bytes, as the
\* range loop over a string decodes it: an ill-formed or truncated sequence
\* yields RuneError and width 1.
DecodeRune(s) ==
    LET n  == Len(s)
        b0 == s[1]
        b1 == IF n >= 2 THEN s[2] ELSE 0
        b2 == IF n >= 3 THEN s[3] ELSE 0
        b3 == IF n >= 4 THEN s[4] ELSE 0
        bad == [rune |-> RuneError, width |-> 1]
        lo1 == IF b0 = 224 THEN 160 ELSE IF b0 = 240 THEN 144 ELSE 128
        hi1 == IF b0 = 237 THEN 159 ELSE IF b0 = 244 THEN 143 ELSE 191
    IN  IF b0 < 128 THEN [rune |-> b0, width |-> 1]
        ELSE IF b0 < 194 \/ b0 > 244 THEN bad
        ELSE IF b0 < 224 THEN
            IF n >= 2 /\ InRange(b1, 128, 191)
            THEN [rune |-> (b0 - 192) * 64 + (b1 - 128), width |-> 2]
            ELSE bad
        ELSE IF b0 < 240 THEN
            IF n >= 3 /\ InRange(b1, lo1, hi1) /\ InRange(b2, 128, 191)
            THEN [rune |-> (b0 - 224) * 4096 + (b1 - 128) * 64 + (b2 - 128),
                  width |-> 3]
            ELSE bad
        ELSE
            IF n >= 4 /\ InRange(b1, lo1, hi1) /\ InRange(b2, 128, 191)
                      /\ InRange(b3, 128, 191)
            THEN [rune |-> (b0 - 240) * 262144 + (b1 - 128) * 4096
                           + (b2 - 128) * 64 + (b3 - 128),
                  width |-> 4]
            ELSE bad

\* The UTF-8 encoding of rune r (utf8.AppendRune): a surrogate or a value
\* beyond U+10FFFF is written as RuneError.
EncodeRune(r) ==
    LET v == IF r < 0 \/ r > 1114111 \/ InRange(r, 55296, 57343)
             THEN RuneError ELSE r
    IN  IF v < 128 THEN <<v>>
        ELSE IF v < 2048 THEN <<192 + (v \div 64), 128 + (v % 64)>>
        ELSE IF v < 65536 THEN
            <<224 + (v \div 4096), 128 + ((v \div 64) % 64), 128 + (v % 64)>>
        ELSE <<240 + (v \div 262144), 128 + ((v \div 4096) % 64),
               128 + ((v \div 64) % 64), 128 + (v % 64)>>

\* unicode.IsSpace: in Latin-1 '\t' '\n' '\v' '\f' '\r' ' ' U+0085 U+00A0,
\* beyond it the White_Space property.
IsSpace(r) ==
    \/ InRange(r, 9, 13)
    \/ r \in {32, 133, 160, 5760, 8232, 8233, 8239, 8287, 12288}
    \/ InRange(r, 8192, 8202)

\* unicode.IsPrint: letters, marks, numbers, punctuation, symbols and the
\* ASCII space.  Latin-1 is exact (U+00AD is a format character); beyond
\* Latin-1 the ranges are those of the tables L, M, N, P, S around the runes
\* PromptBytes can spell: U+FF41..FF5A, U+FF66..FF9F, U+FFC2..FFC7 and
\* U+FFFC..FFFD.  Private-use runes (U+E000..F8FF) and the noncharacter
\* U+FFFF are in none of the tables.
IsPrint(r) ==
    \/ InRange(r, 32, 126)
    \/ InRange(r, 161, 172)
    \/ InRange(r, 174, 255)
    \/ InRange(r, 65345, 65370)
    \/ InRange(r, 65382, 65439)
    \/ InRange(r, 65474, 65479)
    \/ InRange(r, 65532, 65533)

\* (bug variant) only printable runes are kept: whitespace is dropped
KeepPrintOnly(r) == IsPrint(r)

\* if unicode.IsPrint(r) || unicode.IsSpace(r)
Keep(r) == IsPrint(r) \/ IsSpace(r)

\* (bug variant) builder.WriteByte(byte(r)): the rune truncated to one byte
WriteByte(r) == <<r % 256>>

\* builder.WriteRune(r)
WriteRune(r) == EncodeRune(r)

\* sanitizePrompt: the kept runes of the prompt, re-encoded, in order
RECURSIVE sanitizePrompt(_)
sanitizePrompt(p) ==
    IF p = <<>> THEN <<>>
    ELSE LET d    == DecodeRune(p)
             rest == sanitizePrompt(SubSeq(p, d.width + 1, Len(p)))
         IN  IF Keep(d.rune) THEN WriteRune(d.rune) \o rest ELSE rest

\* ----------------------------------------------------------- configuration
\* v.SetDefault("poll_interval", 10)
DefaultPollInterval == 10

\* v.SetDefault("poll_timeout", 600)
DefaultPollTimeout == 600

\* the keys of the two polling settings
ConfigKeys == {"poll_interval", "poll_timeout"}

\* the environment variables that may name them
EnvNames == {"DEEPVIZ_POLL_INTERVAL", "DEEPVIZ_POLL_TIMEOUT",
             "GEMINI_POLL_INTERVAL", "GEMINI_POLL_TIMEOUT"}

\* an environment variable that is not set
NoEnv == "<unset>"

\* what an environment variable may hold: nothing, numbers, something else
EnvStrings == {"", "5", "30", "abc"}

\* a key the config file does not hold
NoValue == 0 - 1

\* the integers config.yaml may give a key
FileValues == {5, 30}

\* config.yaml: not there, unreadable as YAML, or read
ConfigFiles ==
    {[state |-> "absent", values |-> [k \in ConfigKeys |-> NoValue]],
     [state |-> "malformed", values |-> [k \in ConfigKeys |-> NoValue]]}
    \cup {[state |-> "read", values |-> f] :
            f \in [ConfigKeys -> FileValues \cup {NoValue}]}

\* NewViperConfig has not been called
NoConfig == [loaded |-> "no", PollInterval |-> NoValue, PollTimeout |-> NoValue]

\* v.GetInt's conversion of a string: the number it spells, 0 when it spells none
ToInt(str) ==
    CASE str = "5" -> 5
      [] str = "30" -> 30
      [] OTHER -> 0

\* the variable AutomaticEnv looks a key up under: SetEnvPrefix("DEEPVIZ"),
\* the prefix, "_", and the key in upper case
EnvKey(key) ==
    IF key = "poll_interval" THEN "DEEPVIZ_POLL_INTERVAL"
    ELSE "DEEPVIZ_POLL_TIMEOUT"

\* the variable README.md documents for a key
DocumentedEnvKey(key) ==
    IF key = "poll_interval" THEN "GEMINI_POLL_INTERVAL"
    ELSE "GEMINI_POLL_TIMEOUT"

Default(key) ==
    IF key = "poll_interval" THEN DefaultPollInterval ELSE DefaultPollTimeout

\* the environment variable name holds a value (an empty one counts as unset)
EnvSet(name) == environ[name] \notin {NoEnv, ""}

\* The integer found for key when the environment is searched under the
\* variable envName: environment, then config file, then default.
Lookup(key, envName) ==
    IF EnvSet(envName) THEN ToInt(environ[envName])
    ELSE IF configFile.values[key] # NoValue THEN configFile.values[key]
    ELSE Default(key)

\* v.GetInt(key)
GetInt(key) == Lookup(key, EnvKey(key))

\* no configuration is being loaded
ConfigIdle ==
    /\ environ = [n \in EnvNames |-> NoEnv]
    /\ configFile \in {c \in ConfigFiles : c.state = "absent"}
    /\ config = NoConfig

\* ------------------------------------------------------------ the pipeline
\* the most flags on a command line
MaxArgs == 2

\* the workflow flags; --no-image is bound to the variable of --research-only
WorkflowFlags == {"research-only", "no-image", "image-only"}

\* the command lines: each flag with the value given to it (--flag is
\* --flag=true)
CommandLines ==
    UNION {[1..n -> [flag : WorkflowFlags, value : BOOLEAN]] : n \in 0..MaxArgs}

\* the variables as the flags are defined: both false
NoOpts == [ResearchOnly |-> FALSE, ImageOnly |-> FALSE]

\* The flag variables after the first n flags of the command line line were
\* parsed: each flag stores its value in the variable it is bound to.
RECURSIVE ParseFlags(_, _)
ParseFlags(line, n) ==
    IF n = 0 THEN NoOpts
    ELSE LET before == ParseFlags(line, n - 1)
             arg    == line[n]
         IN  IF arg.flag = "image-only"
             THEN [before EXCEPT !.ImageOnly = arg.value]
             ELSE [before EXCEPT !.ResearchOnly = arg.value]

\* (bug variant) research runs unless --research-only is given
RunsResearchUnlessResearchOnly(o) == ~o.ResearchOnly

\* if !opts.ImageOnly
RunsResearch(o) == ~o.ImageOnly

\* (bug variant) image generation runs whatever the flags
RunsImageAlways(o) == TRUE

\* if !opts.ResearchOnly
RunsImage(o) == ~o.ResearchOnly

\* (bug variant) a research error is logged and the pipeline goes on
AfterResearchErrorContinues == "image"

\* return fmt.Errorf("failed to execute research: %w", err)
AfterResearchError == "returned"

\* RunWithConfig has not been called
NoPipe ==
    [pc |-> "idle", researchRunning |-> FALSE, imageRunning |-> FALSE,
     researchCalls |-> 0, imageCalls |-> 0, researchOutcome |-> "none",
     ret |-> "none"]

\* no pipeline is running
PipeIdle ==
    /\ cmdline = <<>>
    /\ opts = NoOpts
    /\ pipe = NoPipe

\* ------------------------------------------------- the status response's text
\* the most output segments in a status response
MaxOutputs == 3

\* a segment without a text field
NoText == "<nil>"

\* no content extracted yet
NoContent == "<none>"

\* the texts a segment may carry
Texts == {"", "a", "b"}

\* The output segments: text-typed ones, with a text or without (the field
\* is optional), and segments of another type, which carry no text.
Segments ==
    [type : {"text"}, text : Texts \cup {NoText}]
    \cup {[type |-> "image", text |-> NoText]}

\* interaction.Outputs: nil, or a collection of at most MaxOutputs segments
OutputCollections ==
    {[present |-> FALSE, items |-> <<>>]}
    \cup {[present |-> TRUE, items |-> q] : q \in SeqsUpTo(Segments, MaxOutputs)}

\* output.AsTextContent(): the segment read as text content; an error when
\* the segment is of another type
AsTextContent(seg) == [err |-> seg.type # "text", Text |-> seg.text]

\* (bug variant) a segment with an empty text is passed over too
TextFoundNonEmpty(tc) == ~tc.err /\ tc.Text \notin {NoText, ""}

\* if err == nil && textContent.Text != nil
TextFound(tc) == ~tc.err /\ tc.Text # NoText

\* the loop over the outputs: content is the text of the first segment that
\* passes the test (break); "" when none does
RECURSIVE ExtractText(_)
ExtractText(items) ==
    IF items = <<>> THEN ""
    ELSE LET tc == AsTextContent(Head(items))
         IN  IF TextFound(tc) THEN tc.Text ELSE ExtractText(Tail(items))

\* var content string; if interaction.Outputs != nil { the loop }
ExtractContent(outs) == IF outs.present THEN ExtractText(outs.items) ELSE ""

\* no status response is being read
ExtractIdle ==
    /\ outputs = [present |-> FALSE, items |-> <<>>]
    /\ content = NoContent

\* ------------------------------------------------- several Execute calls
\* the Execute invocations running at the same time
NumInvocations == 2

Invocations == 1..NumInvocations

\* the identifiers the remote service hands out, in the order of creation
JobIDs == 1..NumInvocations

\* no identifier (the empty string of the source)
NoJob == 0

\* the timestamps invocations are called with (one-second resolution: two
\* invocations may be given the same)
Timestamps == {"t1", "t2"}

\* the text of job j's report, and no text
JobContent(j) == j

\* an invocation before Execute is called
NoInvocation ==
    [pc |-> "idle", interactionID |-> NoJob, statusTarget |-> NoJob,
     cancelTarget |-> NoJob, status |-> "", outcome |-> "none",
     content |-> NoJob, timestamp |-> "t1"]

\* a job the remote service does not hold
NoRemoteJob == [status |-> "absent", owner |-> NoJob]

\* the identifier of the job created last (0 when there is none)
LastCreated == Cardinality({j \in JobIDs : jobs[j].status # "absent"})

\* (bug variant) the identifier is kept in a field of the client, which the
\* invocations share
StatusTargetShared(i) == LastCreated

\* c.checkStatus(ctx, interactionID): Execute's own local variable
StatusTarget(i) == inv[i].interactionID

\* c.cancelResearch(interactionID) in the deferred function of invocation i
CancelTargetOf(i) == inv[i].interactionID

\* no concurrent invocations are under way
ConcIdle ==
    /\ inv = [i \in Invocations |-> NoInvocation]
    /\ jobs = [j \in JobIDs |-> NoRemoteJob]
    /\ files = [t \in Timestamps |-> NoJob]

\* ------------------------------------------------------------------ Init
\* the coordinator before Execute is called, whatever the prompt
InitExecute ==
    /\ pollInterval \in 1..MaxInterval
    /\ pollTimeout \in 0..MaxTimeout
    /\ pc = "start"
    /\ now = 0
    /\ ctxCancelled = FALSE
    /\ createSent = FALSE
    /\ remoteExists = FALSE
    /\ remoteStatus = ""
    /\ interactionID = ""
    /\ success = FALSE
    /\ nextTick = NoTime
    /\ tickPending = FALSE
    /\ deadline = NoTime
    /\ statusSent = FALSE
    /\ statusCalls = 0
    /\ inProgressSeen = 0
    /\ lastResp = NoResp
    /\ pollResult = NoResult
    /\ result = NoResult
    /\ err = NoErr
    /\ cancelCalls = 0
    /\ cancelTarget = ""
    /\ cancelCtx = NoCtx
    /\ cancelResp = "none"
    /\ fileContent = NoFile
    /\ writeResult = "none"
    /\ sentInput = NoInput
    /\ resanitized = NoInput
    /\ pollStart = NoTime
    /\ pollEnd = NoTime
    /\ slowStatus = FALSE
    /\ failedAtCalls = NoTime
    /\ ctxFired = [fired |-> FALSE, waiting |-> FALSE, at |-> NoTime, calls |-> 0]

\* Execute is about to be called with the prompt MainPrompt
\* nothing but Execute is under way
AuxIdle ==
    /\ ConfigIdle
    /\ PipeIdle
    /\ ExtractIdle
    /\ ConcIdle

Init ==
    /\ prompt = MainPrompt
    /\ InitExecute
    /\ AuxIdle

\* Execute is about to be called with any prompt of at most MaxPromptLen bytes
SanitizeInit ==
    /\ prompt \in Prompts
    /\ InitExecute
    /\ AuxIdle

\* --------------------------------------------------------------- helpers
\* (bug variant) the file is written with the status, not the content
FileDataStatus(res) == res.Status

\* util.WriteFile(path, []byte(result.Content)): the bytes written
FileData(res) == res.Content

\* (bug variant) saveResult forgets to record the path in the result
SavedResultNoPath(res) == res

\* result.MarkdownPath = path
SavedResult(res) == [res EXCEPT !.MarkdownPath = MarkdownPath]

\* util.ReadFile(path): the file's bytes, NoFile when there is no such file
ReadFile(path) == IF path = MarkdownPath THEN fileContent ELSE NoFile

\* (bug variant) the status call is made under a context of its own
StatusCallBackgroundCtx == FALSE

\* checkStatus passes the caller's ctx to the status call: a call made after
\* ctx is done is not sent
StatusCallCtxDone == ctxCancelled

\* fmt.Errorf("polling timeout after %d seconds", c.config.PollTimeout)
TimeoutErrSeconds == pollTimeout

\* (bug variant) a status-check error is logged and the loop polls again
StatusErrorRetried(k) == FALSE

\* if err != nil { return nil, err } after checkStatus: any error ends polling
StatusErrorIsFatal(k) == TRUE

\* (bug variant) the deferred function cancels whatever Execute returns
DeferCancelsAlways(succ) == TRUE

\* (bug variant) success is set before saveResult is called
SuccessSetBeforeSave == TRUE

\* the success flag when saveResult fails: success = true comes after the save
SuccessAtSaveFailure == FALSE

\* (bug variant) the loop polls once at once, before the first tick
TickPendingAtStartImmediate == TRUE

\* time.NewTicker(interval): ticker.C is empty until one interval has passed
TickPendingAtStart == FALSE

\* (bug variant) the timeout also ends a status call in flight
TimeoutEvaluatedInFlight == {"select", "checking"}

\* the timeout channel is read only in the select of the polling loop
TimeoutEvaluatedAt == {"select"}

\* (bug variant) the deferred function cancels with an empty identifier
CancelArgEmpty == ""

\* c.cancelResearch(interactionID) in the deferred function
CancelArg == interactionID

\* (bug variant) no timeout is armed
ArmTimeoutNever(t) == NoTime

\* (bug variant) the timeout armed with the poll interval's duration
ArmTimeoutWithInterval(t) == t + pollInterval

\* time.After(time.Duration(c.config.PollTimeout) * time.Second), armed at t
ArmTimeout(t) == t + pollTimeout

\* (bug variant) time.After called inside the loop: every round re-arms it
LoopTimeoutRearmed(d, t) == t + pollTimeout

\* The for/select loop reads the one channel time.After returned before the
\* loop: going round the loop at t leaves the deadline d where it is.
LoopTimeout(d, t) == d

\* (bug variant) the cancel call's context derived from the caller's ctx
CancelContextFromCaller(t) ==
    [parent |-> "caller", live |-> ~ctxCancelled, deadline |-> t + CancelTimeout]

\* context.WithTimeout(context.Background(), 10*time.Second), made at t:
\* a child of the background context, alive whatever the caller's ctx is.
CancelContext(t) ==
    [parent |-> "background", live |-> TRUE, deadline |-> t + CancelTimeout]

\* (bug variant) cleanup skipped once the caller's ctx is done
DeferCancelsUnlessCtxDone(succ) == ~succ /\ ~ctxCancelled

\* defer func() { if !success { cancelResearch(interactionID) } }()
DeferCancels(succ) == ~succ

\* (bug variant) the deferred cancel installed before startResearch is called
DeferRegisteredFirst == TRUE

\* The deferred function is installed after the start-error return.
DeferRegisteredBeforeStart == FALSE

\* (bug variant) a failed cancel call replaces the error Execute returns
ErrAfterCancelOverrides(e, r) ==
    IF r = "ok" THEN e
    ELSE [phase |-> "cancel", kind |-> "cancel", jobID |-> "", seconds |-> NoTime]

\* The deferred function only logs cancelErr: Execute's error e stands
\* whatever the cancel call r came back with.
ErrAfterCancel(e, r) == e

\* (bug variant) the unsaved result returned together with the save error
SaveFailResultKept(res) == res

\* What Execute returns beside the error when saveResult failed on res.
SaveFailResult(res) == NoResult

\* (bug variant) "failed" not recognised: polling goes on
ClassifyFailedAsProgress(status) ==
    IF status = "completed" THEN "completed" ELSE "progress"

\* (bug variant) any status other than the known running ones ends the poll
ClassifyUnknownAsFailed(status) ==
    IF status = "completed" THEN "completed"
    ELSE IF status \in {"", "in_progress"} THEN "progress"
    ELSE "failed"

\* pollUntilComplete's reading of result.Status.
Classify(status) ==
    IF status = "completed" THEN "completed"
    ELSE IF status = "failed" THEN "failed"
    ELSE "progress"

\* A select case is ready: ctx.Done(), the timeout channel, or ticker.C.
TimeoutReady == deadline # NoTime /\ now >= deadline
SelectReady == ctxCancelled \/ TimeoutReady \/ tickPending

\* Execute returns (res, e) with the success flag succ; the deferred function
\* then runs and, unless success, issues cancelResearch(interactionID).
ExecuteReturns(res, e, succ) ==
    /\ result' = res
    /\ err' = e
    /\ success' = succ
    /\ IF DeferCancels(succ)
         THEN /\ pc' = "cancelling"
              /\ cancelCalls' = cancelCalls + 1
              /\ cancelTarget' = CancelArg
              /\ cancelCtx' = CancelContext(now)
              /\ cancelResp' = "none"
         ELSE /\ pc' = "done"
              /\ UNCHANGED cancelVars

\* pollUntilComplete returns: defer ticker.Stop().
PollReturns ==
    /\ pollEnd' = now
    /\ tickPending' = FALSE
    /\ nextTick' = NoTime

\* --------------------------------------------------------------- actions
\* Execute calls startResearch, which posts the create request under ctx.
StartResearchCall ==
    /\ pc = "start"
    /\ pc' = "creating"
    /\ sentInput' = sanitizePrompt(prompt)
    /\ createSent' = ~ctxCancelled
    /\ UNCHANGED <<auxVars, configVars, prompt, resanitized, now, ctxCancelled, remoteVars, interactionID,
                   success, timerVars, statusSent, statusCalls, inProgressSeen,
                   lastResp, pollResult, result, err, cancelVars, saveVars,
                   histVars>>

\* The remote service accepts the create request: the job exists.
RemoteAccept ==
    /\ pc = "creating"
    /\ createSent
    /\ ~remoteExists
    /\ remoteExists' = TRUE
    /\ remoteStatus' = "in_progress"
    /\ UNCHANGED <<auxVars, configVars, promptVars, pc, now, ctxCancelled, createSent, interactionID,
                   success, timerVars, statusSent, statusCalls, inProgressSeen,
                   lastResp, pollResult, result, err, cancelVars, saveVars,
                   histVars>>

\* The create call comes back with an error: Execute returns it at once.
StartResearchFails ==
    /\ pc = "creating"
    /\ \E r \in CreateResponses \ {"ok"} :
         /\ r = "non200" => createSent /\ ~remoteExists
         /\ r \in {"nobody", "emptyid"} => createSent
         /\ IF DeferRegisteredBeforeStart
              THEN ExecuteReturns(NoResult, StartErr(r), FALSE)
              ELSE /\ result' = NoResult
                   /\ err' = StartErr(r)
                   /\ pc' = "done"
                   /\ UNCHANGED <<success, cancelVars>>
    /\ UNCHANGED <<auxVars, configVars, promptVars, now, ctxCancelled, createSent, remoteVars,
                   interactionID, timerVars, statusSent, statusCalls,
                   inProgressSeen, lastResp, pollResult, saveVars, histVars>>

\* The create call comes back with the job's identifier: Execute installs the
\* deferred cancel and enters pollUntilComplete, which starts the ticker and
\* arms the timeout.
StartResearchSucceeds ==
    /\ pc = "creating"
    /\ createSent
    /\ remoteExists
    /\ interactionID' = RemoteJobID
    /\ success' = FALSE
    /\ nextTick' = now + pollInterval
    /\ tickPending' = TickPendingAtStart
    /\ deadline' = ArmTimeout(now)
    /\ pollStart' = now
    /\ pc' = "select"
    /\ UNCHANGED <<auxVars, configVars, promptVars, now, ctxCancelled, createSent, remoteVars,
                   statusSent, statusCalls, inProgressSeen, lastResp,
                   pollResult, result, err, cancelVars, saveVars, pollEnd,
                   slowStatus, failedAtCalls, ctxFired>>

\* select: case <-ctx.Done(): return nil, ctx.Err()
PollSelectCtxDone ==
    /\ pc = "select"
    /\ ctxCancelled
    /\ PollReturns
    /\ ExecuteReturns(NoResult, PollErr("ctx", "", NoTime), FALSE)
    /\ UNCHANGED <<auxVars, configVars, promptVars, now, ctxCancelled, createSent, remoteVars,
                   interactionID, deadline, statusSent, statusCalls,
                   inProgressSeen, lastResp, pollResult, saveVars,
                   pollStart, slowStatus, failedAtCalls, ctxFired>>

\* select: case <-timeout: return nil, "polling timeout after %d seconds"
PollSelectTimeout ==
    /\ pc \in TimeoutEvaluatedAt
    /\ TimeoutReady
    /\ PollReturns
    /\ ExecuteReturns(NoResult, PollErr("timeout", "", TimeoutErrSeconds), FALSE)
    /\ UNCHANGED <<auxVars, configVars, promptVars, now, ctxCancelled, createSent, remoteVars,
                   interactionID, deadline, statusSent, statusCalls,
                   inProgressSeen, lastResp, pollResult, saveVars,
                   pollStart, slowStatus, failedAtCalls, ctxFired>>

\* select: case <-ticker.C: checkStatus issues the status request under ctx.
PollSelectTick ==
    /\ pc = "select"
    /\ tickPending
    /\ tickPending' = FALSE
    /\ deadline' = LoopTimeout(deadline, now)
    /\ statusCalls' = statusCalls + 1
    /\ statusSent' = ~StatusCallCtxDone
    /\ pc' = "checking"
    /\ UNCHANGED <<auxVars, configVars, promptVars, now, ctxCancelled, createSent, remoteVars,
                   interactionID, success, nextTick, inProgressSeen, lastResp,
                   pollResult, result, err, cancelVars, saveVars, histVars>>

\* The status call comes back with an error: pollUntilComplete returns it.
CheckStatusFails ==
    /\ pc = "checking"
    /\ \E k \in StatusResponseKinds \ {"ok"} :
         /\ k # "neterr" => statusSent
         /\ lastResp' = [kind |-> k, status |-> ""]
         /\ IF StatusErrorIsFatal(k)
              THEN /\ ExecuteReturns(NoResult,
                                     PollErr(StatusErrKind(k), StatusErrJobID(k), NoTime),
                                     FALSE)
                   /\ PollReturns
              ELSE /\ pc' = "select"
                   /\ UNCHANGED <<result, err, success, cancelVars, pollEnd,
                                  tickPending, nextTick>>
    /\ UNCHANGED <<auxVars, configVars, promptVars, now, ctxCancelled, createSent, remoteVars,
                   interactionID, deadline, statusSent, statusCalls,
                   inProgressSeen, pollResult, saveVars, pollStart,
                   slowStatus, failedAtCalls, ctxFired>>

\* The status call comes back 200 with the job's status "completed":
\* pollUntilComplete returns the result and Execute goes on to saveResult.
CheckStatusCompleted ==
    /\ pc = "checking"
    /\ statusSent
    /\ Classify(remoteStatus) = "completed"
    /\ \E c \in Contents :
         pollResult' = [nil |-> FALSE, InteractionID |-> interactionID,
                        Status |-> remoteStatus, Content |-> c,
                        MarkdownPath |-> ""]
    /\ lastResp' = [kind |-> "ok", status |-> remoteStatus]
    /\ PollReturns
    /\ pc' = "saving"
    /\ UNCHANGED <<auxVars, configVars, promptVars, now, ctxCancelled, createSent, remoteVars,
                   interactionID, success, deadline, statusSent, statusCalls,
                   inProgressSeen, result, err, cancelVars, saveVars,
                   pollStart, slowStatus, failedAtCalls, ctxFired>>

\* The status call comes back 200 with the job's status "failed".
CheckStatusFailed ==
    /\ pc = "checking"
    /\ statusSent
    /\ Classify(remoteStatus) = "failed"
    /\ lastResp' = [kind |-> "ok", status |-> remoteStatus]
    /\ failedAtCalls' = IF remoteStatus = "failed" THEN statusCalls ELSE failedAtCalls
    /\ PollReturns
    /\ ExecuteReturns(NoResult, PollErr("failed", interactionID, NoTime), FALSE)
    /\ UNCHANGED <<auxVars, configVars, promptVars, now, ctxCancelled, createSent, remoteVars,
                   interactionID, deadline, statusSent, statusCalls,
                   inProgressSeen, pollResult, saveVars, pollStart,
                   slowStatus, ctxFired>>

\* The status call comes back 200 with any other status: "Research in
\* progress" is logged and the loop goes back to the select.
CheckStatusInProgress ==
    /\ pc = "checking"
    /\ statusSent
    /\ Classify(remoteStatus) = "progress"
    /\ lastResp' = [kind |-> "ok", status |-> remoteStatus]
    /\ failedAtCalls' = IF remoteStatus = "failed" THEN statusCalls ELSE failedAtCalls
    /\ inProgressSeen' = inProgressSeen + 1
    /\ pc' = "select"
    /\ UNCHANGED <<auxVars, configVars, promptVars, now, ctxCancelled, createSent, remoteVars,
                   interactionID, success, timerVars, statusSent, statusCalls,
                   pollResult, result, err, cancelVars, saveVars, pollStart,
                   pollEnd, slowStatus, ctxFired>>

\* saveResult writes the markdown file and records its path; success = true.
SaveResultSucceeds ==
    /\ pc = "saving"
    /\ fileContent' = FileData(pollResult)
    /\ writeResult' = "nil"
    /\ ExecuteReturns(SavedResult(pollResult), NoErr, TRUE)
    /\ UNCHANGED <<auxVars, configVars, promptVars, now, ctxCancelled, createSent, remoteVars,
                   interactionID, timerVars, statusSent, statusCalls,
                   inProgressSeen, lastResp, pollResult, histVars>>

\* WriteFile fails (the directory or the file cannot be written; the file may
\* be left created and empty): Execute returns the save error.
SaveResultFails ==
    /\ pc = "saving"
    /\ fileContent' \in {fileContent, ""}
    /\ writeResult' = "error"
    /\ ExecuteReturns(SaveFailResult(pollResult), SaveErr, SuccessAtSaveFailure)
    /\ UNCHANGED <<auxVars, configVars, promptVars, now, ctxCancelled, createSent, remoteVars,
                   interactionID, timerVars, statusSent, statusCalls,
                   inProgressSeen, lastResp, pollResult, histVars>>

\* The cancel call comes back; a failure is logged, and Execute has returned.
CancelResearchReturns ==
    /\ pc = "cancelling"
    /\ \E r \in CancelResponses :
         /\ r # "neterr" => cancelCtx.live
         /\ cancelResp' = r
         /\ err' = ErrAfterCancel(err, r)
         /\ remoteStatus' = IF r = "ok" /\ remoteExists /\ remoteStatus \notin RemoteTerminal
                              THEN "cancelled" ELSE remoteStatus
    /\ pc' = "done"
    /\ UNCHANGED <<auxVars, configVars, promptVars, now, ctxCancelled, createSent, remoteExists,
                   interactionID, success, timerVars, statusSent, statusCalls,
                   inProgressSeen, lastResp, pollResult, result, cancelCalls,
                   cancelTarget, cancelCtx, saveVars, histVars>>

\* The caller cancels ctx.
CtxCancel ==
    /\ ~ctxCancelled
    /\ ctxCancelled' = TRUE
    /\ ctxFired' = IF pc \in {"select", "checking"}
                      THEN [fired |-> TRUE,
                            waiting |-> (pc = "select" /\ ~SelectReady),
                            at |-> now, calls |-> statusCalls]
                      ELSE [fired |-> TRUE, waiting |-> FALSE,
                            at |-> NoTime, calls |-> 0]
    /\ UNCHANGED <<auxVars, configVars, promptVars, pc, now, createSent, remoteVars, interactionID,
                   success, timerVars, statusSent, statusCalls, inProgressSeen,
                   lastResp, pollResult, result, err, cancelVars, saveVars,
                   pollStart, pollEnd, slowStatus, failedAtCalls>>

\* The remote service moves the job to another status, until a terminal one
\* (followed while Execute can still read the status: until polling ends).
RemoteProgress ==
    /\ pc \in {"creating", "select", "checking"}
    /\ remoteExists
    /\ remoteStatus \notin RemoteTerminal
    /\ \E s \in Statuses \ {remoteStatus} : remoteStatus' = s
    /\ UNCHANGED <<auxVars, configVars, promptVars, pc, now, ctxCancelled, createSent, remoteExists,
                   interactionID, success, timerVars, statusSent, statusCalls,
                   inProgressSeen, lastResp, pollResult, result, err,
                   cancelVars, saveVars, histVars>>

\* A second passes while Execute is blocked; the ticker and the timeout fire
\* on their own schedule (a tick finding ticker.C full is dropped).
Tick ==
    /\ \/ pc = "creating" /\ now < MaxCreateDelay
       \/ pc = "select" /\ ~SelectReady /\ now < MaxTime
       \/ pc = "checking" /\ now < MaxTime
       \/ pc = "cancelling" /\ now < cancelCtx.deadline
    /\ now' = now + 1
    /\ IF pc \in {"select", "checking"} /\ now + 1 = nextTick
         THEN /\ tickPending' = TRUE
              /\ nextTick' = nextTick + pollInterval
         ELSE UNCHANGED <<tickPending, nextTick>>
    /\ slowStatus' = (slowStatus \/ pc = "checking")
    /\ UNCHANGED <<auxVars, configVars, promptVars, pc, ctxCancelled, createSent, remoteVars,
                   interactionID, success, deadline, statusSent, statusCalls,
                   inProgressSeen, lastResp, pollResult, result, err,
                   cancelVars, saveVars, pollStart, pollEnd, failedAtCalls,
                   ctxFired>>

Next ==
    \/ StartResearchCall
    \/ RemoteAccept
    \/ StartResearchFails
    \/ StartResearchSucceeds
    \/ PollSelectCtxDone
    \/ PollSelectTimeout
    \/ PollSelectTick
    \/ CheckStatusFails
    \/ CheckStatusCompleted
    \/ CheckStatusFailed
    \/ CheckStatusInProgress
    \/ SaveResultSucceeds
    \/ SaveResultFails
    \/ CancelResearchReturns
    \/ CtxCancel
    \/ RemoteProgress
    \/ Tick

Spec == Init /\ [][Next]_vars

\* A step of the Execute goroutine: a statement it runs when it is not
\* blocked, a select case it takes when one is ready, or the return of the
\* remote or file call it is waiting in.
ExecuteStep ==
    \/ StartResearchCall
    \/ StartResearchFails
    \/ StartResearchSucceeds
    \/ PollSelectCtxDone
    \/ PollSelectTimeout
    \/ PollSelectTick
    \/ CheckStatusFails
    \/ CheckStatusCompleted
    \/ CheckStatusFailed
    \/ CheckStatusInProgress
    \/ SaveResultSucceeds
    \/ SaveResultFails
    \/ CancelResearchReturns

\* The goroutine runs, every call it makes returns, time passes (the timers
\* fire), and the select, which picks at random among its ready cases, does
\* not pass over a case that is ready again and again.
Fairness ==
    /\ WF_vars(ExecuteStep)
    /\ WF_vars(Tick)
    /\ SF_vars(PollSelectTimeout)
    /\ SF_vars(PollSelectCtxDone)

LiveSpec == Init /\ [][Next]_vars /\ Fairness

\* sanitizePrompt applied to what startResearch put in the request body
SanitizeAgain ==
    /\ pc = "creating"
    /\ resanitized = NoInput
    /\ resanitized' = sanitizePrompt(sentInput)
    /\ UNCHANGED <<auxVars, configVars, prompt, sentInput, pc, now, ctxCancelled,
                   createSent, remoteVars, interactionID, success, timerVars,
                   statusSent, statusCalls, inProgressSeen, lastResp,
                   pollResult, result, err, cancelVars, saveVars, histVars>>

SanitizeNext ==
    \/ StartResearchCall
    \/ SanitizeAgain

\* the sanitizing step of startResearch alone, over every prompt of Prompts
SanitizeSpec == SanitizeInit /\ [][SanitizeNext]_vars

\* ------------------------------------------------- loading the configuration
\* the process starts with any environment and any config file
ConfigInit ==
    /\ prompt = MainPrompt
    /\ InitExecute
    /\ environ \in [EnvNames -> EnvStrings \cup {NoEnv}]
    /\ configFile \in ConfigFiles
    /\ config = NoConfig
    /\ PipeIdle
    /\ ExtractIdle
    /\ ConcIdle

\* NewViperConfig: defaults, environment prefix, config file, then the struct;
\* a config file that cannot be parsed is an error, a missing one is not.
NewViperConfig ==
    /\ config = NoConfig
    /\ config' = IF configFile.state = "malformed"
                   THEN [NoConfig EXCEPT !.loaded = "error"]
                   ELSE [loaded |-> "ok",
                         PollInterval |-> GetInt("poll_interval"),
                         PollTimeout |-> GetInt("poll_timeout")]
    /\ UNCHANGED <<execVars, pipeVars, extractVars, concVars, environ, configFile>>

ConfigNext == NewViperConfig

ConfigSpec == ConfigInit /\ [][ConfigNext]_vars

\* ------------------------------------------------------- running the pipeline
\* the command is started with any command line of at most MaxArgs flags
PipeInit ==
    /\ prompt = MainPrompt
    /\ InitExecute
    /\ ConfigIdle
    /\ cmdline \in CommandLines
    /\ opts = NoOpts
    /\ pipe = [NoPipe EXCEPT !.pc = "parse"]
    /\ ExtractIdle
    /\ ConcIdle

\* the pipeline returns e to its caller
PipeReturns(p, e) == [p EXCEPT !.pc = "returned", !.ret = e]

\* The root command parses the flags, builds Options and calls RunWithConfig.
PipeParse ==
    /\ pipe.pc = "parse"
    /\ opts' = ParseFlags(cmdline, Len(cmdline))
    /\ pipe' = [pipe EXCEPT !.pc = "setup"]
    /\ UNCHANGED <<execVars, loadVars, extractVars, concVars, cmdline>>

\* RunWithConfig's preamble: the output directories and the prompt file; an
\* error in either is returned.
PipeSetup ==
    /\ pipe.pc = "setup"
    /\ \E ok \in BOOLEAN :
         pipe' = IF ok THEN [pipe EXCEPT !.pc = "research"]
                       ELSE PipeReturns(pipe, "setup")
    /\ UNCHANGED <<execVars, loadVars, extractVars, concVars, cmdline, opts>>

\* if !opts.ImageOnly is false: the research block is skipped
PipeSkipResearch ==
    /\ pipe.pc = "research"
    /\ ~RunsResearch(opts)
    /\ pipe' = [pipe EXCEPT !.pc = "image"]
    /\ UNCHANGED <<execVars, loadVars, extractVars, concVars, cmdline, opts>>

\* NewGenaiResearchClient fails: "failed to create research client"
PipeResearchClientFails ==
    /\ pipe.pc = "research"
    /\ RunsResearch(opts)
    /\ pipe' = PipeReturns(pipe, "research-client")
    /\ UNCHANGED <<execVars, loadVars, extractVars, concVars, cmdline, opts>>

\* researchClient.Execute(ctx, prompt, timestamp) is called
PipeExecuteCall ==
    /\ pipe.pc = "research"
    /\ RunsResearch(opts)
    /\ pipe' = [pipe EXCEPT !.pc = "researching",
                            !.researchRunning = TRUE,
                            !.researchCalls = @ + 1]
    /\ UNCHANGED <<execVars, loadVars, extractVars, concVars, cmdline, opts>>

\* Execute returns: a result, or an error the pipeline returns wrapped
PipeExecuteReturns ==
    /\ pipe.pc = "researching"
    /\ \E ok \in BOOLEAN :
         pipe' = IF ok
                   THEN [pipe EXCEPT !.pc = "image",
                                     !.researchRunning = FALSE,
                                     !.researchOutcome = "ok"]
                   ELSE [pipe EXCEPT !.pc = AfterResearchError,
                                     !.researchRunning = FALSE,
                                     !.researchOutcome = "err",
                                     !.ret = "research"]
    /\ UNCHANGED <<execVars, loadVars, extractVars, concVars, cmdline, opts>>

\* if !opts.ResearchOnly is false: the image block is skipped, and the
\* pipeline prints its summary and returns nil
PipeSkipImage ==
    /\ pipe.pc = "image"
    /\ ~RunsImage(opts)
    /\ pipe' = PipeReturns(pipe, IF pipe.ret = "none" THEN "nil" ELSE pipe.ret)
    /\ UNCHANGED <<execVars, loadVars, extractVars, concVars, cmdline, opts>>

\* imageClient.Generate(ctx, imagePrompt, imgConfig, timestamp) is called
\* (NewGenaiImageClient returns no error)
PipeGenerateCall ==
    /\ pipe.pc = "image"
    /\ RunsImage(opts)
    /\ pipe' = [pipe EXCEPT !.pc = "generating",
                            !.imageRunning = TRUE,
                            !.imageCalls = @ + 1]
    /\ UNCHANGED <<execVars, loadVars, extractVars, concVars, cmdline, opts>>

\* Generate returns: the image (opened when auto-open is on; a failure to
\* open is logged) and the pipeline returns nil, or an error it returns wrapped
PipeGenerateReturns ==
    /\ pipe.pc = "generating"
    /\ \E ok \in BOOLEAN :
         pipe' = PipeReturns([pipe EXCEPT !.imageRunning = FALSE],
                             IF ~ok THEN "image"
                             ELSE IF pipe.ret = "none" THEN "nil" ELSE pipe.ret)
    /\ UNCHANGED <<execVars, loadVars, extractVars, concVars, cmdline, opts>>

PipeNext ==
    \/ PipeParse
    \/ PipeSetup
    \/ PipeSkipResearch
    \/ PipeResearchClientFails
    \/ PipeExecuteCall
    \/ PipeExecuteReturns
    \/ PipeSkipImage
    \/ PipeGenerateCall
    \/ PipeGenerateReturns

PipeSpec == PipeInit /\ [][PipeNext]_vars

\* --------------------------------------------- reading the status response
\* a 200 status response with any output collection has arrived
ExtractInit ==
    /\ prompt = MainPrompt
    /\ InitExecute
    /\ ConfigIdle
    /\ PipeIdle
    /\ outputs \in OutputCollections
    /\ content = NoContent
    /\ ConcIdle

\* checkStatus extracts the content from the response's outputs
CheckStatusExtract ==
    /\ content = NoContent
    /\ content' = ExtractContent(outputs)
    /\ UNCHANGED <<execVars, loadVars, pipeVars, concVars, outputs>>

ExtractNext == CheckStatusExtract

ExtractSpec == ExtractInit /\ [][ExtractNext]_vars

\* ------------------------------------------- Execute invocations side by side
\* Each invocation is about to call Execute on the shared client, with a
\* timestamp of its own choosing.
ConcInit ==
    /\ prompt = MainPrompt
    /\ InitExecute
    /\ ConfigIdle
    /\ PipeIdle
    /\ ExtractIdle
    /\ inv \in {f \in [Invocations -> [pc : {"start"}, interactionID : {NoJob},
                                      statusTarget : {NoJob},
                                      cancelTarget : {NoJob}, status : {""},
                                      outcome : {"none"}, content : {NoJob},
                                      timestamp : Timestamps]] : TRUE}
    /\ jobs = [j \in JobIDs |-> NoRemoteJob]
    /\ files = [t \in Timestamps |-> NoJob]

ConcUnchanged == UNCHANGED <<execVars, loadVars, pipeVars, extractVars>>

\* startResearch of invocation i: the remote creates a job and answers with
\* its identifier, which Execute keeps in its local interactionID; or the
\* job is created and the answer is lost; or the call fails outright.
ConcStartResearch(i) ==
    /\ inv[i].pc = "start"
    /\ \/ \E r \in {"ok", "lost"} :
            LET id == LastCreated + 1
            IN  /\ jobs' = [jobs EXCEPT ![id] = [status |-> "in_progress",
                                                 owner |-> i]]
                /\ inv' = IF r = "ok"
                            THEN [inv EXCEPT ![i].pc = "select",
                                             ![i].interactionID = id]
                            ELSE [inv EXCEPT ![i].pc = "done",
                                             ![i].outcome = "submiterror"]
       \/ /\ inv' = [inv EXCEPT ![i].pc = "done", ![i].outcome = "submiterror"]
          /\ UNCHANGED jobs
    /\ UNCHANGED files
    /\ ConcUnchanged

\* the remote service finishes a job
ConcRemoteProgress(j) ==
    /\ jobs[j].status = "in_progress"
    /\ \E s \in {"completed", "failed"} : jobs' = [jobs EXCEPT ![j].status = s]
    /\ UNCHANGED <<inv, files>>
    /\ ConcUnchanged

\* select of invocation i, case <-ticker.C: checkStatus is called
ConcPollTick(i) ==
    /\ inv[i].pc = "select"
    /\ inv' = [inv EXCEPT ![i].pc = "checking",
                          ![i].statusTarget = StatusTarget(i)]
    /\ UNCHANGED <<jobs, files>>
    /\ ConcUnchanged

\* select of invocation i, case <-ctx.Done() or <-timeout
ConcPollGivesUp(i) ==
    /\ inv[i].pc = "select"
    /\ \E o \in {"cancelled", "timedout"} :
         inv' = [inv EXCEPT ![i].pc = "cancelling", ![i].outcome = o]
    /\ UNCHANGED <<jobs, files>>
    /\ ConcUnchanged

\* the status call of invocation i returns what the remote holds for the
\* job the call named, or an error
ConcStatusReturns(i) ==
    /\ inv[i].pc = "checking"
    /\ LET j == inv[i].statusTarget
           s == jobs[j].status
       IN  \/ /\ s = "completed"
              /\ inv' = [inv EXCEPT ![i].pc = "saving", ![i].status = s,
                                    ![i].content = JobContent(j)]
           \/ /\ s = "failed"
              /\ inv' = [inv EXCEPT ![i].pc = "cancelling", ![i].status = s,
                                    ![i].outcome = "failed"]
           \/ /\ s \notin {"completed", "failed"}
              /\ inv' = [inv EXCEPT ![i].pc = "select", ![i].status = s]
           \/ inv' = [inv EXCEPT ![i].pc = "cancelling",
                                 ![i].outcome = "statuserror"]
    /\ UNCHANGED <<jobs, files>>
    /\ ConcUnchanged

\* saveResult of invocation i: the content is written to the file its
\* timestamp names and Execute returns success; or writing fails
ConcSaveResult(i) ==
    /\ inv[i].pc = "saving"
    /\ \/ /\ files' = [files EXCEPT ![inv[i].timestamp] = inv[i].content]
          /\ inv' = [inv EXCEPT ![i].pc = "done", ![i].outcome = "completed"]
       \/ /\ inv' = [inv EXCEPT ![i].pc = "cancelling",
                                ![i].outcome = "persisterror",
                                ![i].content = NoJob]
          /\ UNCHANGED files
    /\ UNCHANGED jobs
    /\ ConcUnchanged

\* the deferred cancel of invocation i: the remote cancels the job the call
\* names if it is still running, or the call fails
ConcCancelResearch(i) ==
    /\ inv[i].pc = "cancelling"
    /\ inv' = [inv EXCEPT ![i].pc = "done", ![i].cancelTarget = CancelTargetOf(i)]
    /\ \E ok \in BOOLEAN :
         LET j == CancelTargetOf(i)
         IN  jobs' = IF ok /\ j \in JobIDs /\ jobs[j].status = "in_progress"
                       THEN [jobs EXCEPT ![j].status = "cancelled"]
                       ELSE jobs
    /\ UNCHANGED files
    /\ ConcUnchanged

ConcNext ==
    \/ \E i \in Invocations : ConcStartResearch(i)
    \/ \E j \in JobIDs : ConcRemoteProgress(j)
    \/ \E i \in Invocations : ConcPollTick(i)
    \/ \E i \in Invocations : ConcPollGivesUp(i)
    \/ \E i \in Invocations : ConcStatusReturns(i)
    \/ \E i \in Invocations : ConcSaveResult(i)
    \/ \E i \in Invocations : ConcCancelResearch(i)

ConcSpec == ConcInit /\ [][ConcNext]_vars

\* ---------------------------------------------------------------- claims
\* The create call succeeded: Execute holds the job's identifier.
JobStarted == interactionID # ""

\* A status response reporting a status the remote never leaves was handled.
ObservedTerminal ==
    lastResp.kind = "ok" /\ lastResp.status \in {"completed", "failed"}

\* The terminal outcome Execute's return values stand for.
Outcome ==
    CASE err = NoErr /\ ~result.nil -> "completed"
      [] err.phase = "poll" /\ err.kind = "failed" -> "failed"
      [] err.phase = "poll" /\ err.kind = "ctx" -> "cancelled"
      [] err.phase = "poll" /\ err.kind = "timeout" -> "timedout"
      [] err.phase = "poll" /\ err.kind \in {"transport", "statuscode", "emptybody"}
           -> "statuserror"
      [] err.phase = "save" -> "persisterror"
      [] err.phase = "start" -> "submiterror"
      [] OTHER -> "none"

\* Exactly one of result and error is non-nil.
ResultXorError == result.nil <=> (err # NoErr)

\* C1: when the create call succeeded and pollUntilComplete returned without
\* a completed result (failed status, timeout, caller cancellation, status
\* error), a cancel call naming the job has been issued by the time Execute
\* has returned.
C1_CompensationIssued ==
    (pc = "done" /\ JobStarted /\ pollEnd # NoTime /\ pollResult.nil)
        => (cancelCalls = 1 /\ cancelTarget = RemoteJobID)

C1_Witness ==
    /\ pc = "done"
    /\ JobStarted
    /\ pollResult.nil
    /\ err.kind = "ctx"
    /\ ctxCancelled
    /\ cancelCalls = 1

\* C2: every job that exists on the remote service when Execute has returned
\* was either observed in a terminal status or had a cancel issued against it.
C2_NoOrphanedJob ==
    (pc = "done" /\ remoteExists)
        => (ObservedTerminal \/ (cancelCalls >= 1 /\ cancelTarget = RemoteJobID))

C4_StartFailureIsImmediate ==
    (pc = "done" /\ err.phase = "start")
        => /\ result.nil
           /\ statusCalls = 0
           /\ cancelCalls = 0
           /\ fileContent = NoFile
           /\ pollStart = NoTime

C4_Witness ==
    /\ pc = "done"
    /\ err.phase = "start"
    /\ err.kind = "emptyid"
    /\ remoteExists

\* C5: the cancel call's coming back, with whatever response, leaves the
\* result and the error Execute returns as they were when it was issued.
C5_CancelFailureNotSurfaced ==
    [][(pc = "cancelling" /\ pc' = "done") => (err' = err /\ result' = result)]_vars

C5_Witness ==
    /\ pc = "done"
    /\ cancelResp \in {"neterr", "non200"}
    /\ err.kind = "timeout"
    /\ result.nil

\* C6: once a status response reporting "failed" has been handled, Execute
\* is returning the error that names the job, no further status call is
\* issued, and exactly one cancel call naming the job is issued, although the
\* job is already terminal remotely.
C6_FailedStatus ==
    failedAtCalls # NoTime
        => /\ pc \in {"cancelling", "done"}
           /\ err = PollErr("failed", RemoteJobID, NoTime)
           /\ interactionID = RemoteJobID
           /\ result.nil
           /\ statusCalls = failedAtCalls
           /\ cancelCalls = 1
           /\ cancelTarget = RemoteJobID

C6_Witness ==
    /\ pc = "done"
    /\ failedAtCalls = 2
    /\ remoteStatus = "failed"
    /\ cancelCalls = 1
    /\ cancelResp = "non200"

\* Execute has returned the timeout error under poll interval 1 and poll
\* timeout 3.
TimedOutOneThree ==
    /\ pc = "done"
    /\ pollInterval = 1
    /\ pollTimeout = 3
    /\ err.kind = "timeout"

\* C7 (as stated): with poll interval 1 and poll timeout 3 and no terminal
\* status, Execute returns the timeout error after at least 2 and at most 4
\* in-progress status responses, with a cancel call issued.
C7_TwoToFourPolls ==
    TimedOutOneThree
        => /\ inProgressSeen >= 2
           /\ inProgressSeen <= 4
           /\ cancelCalls = 1

\* C7 (amended): the same, provided every status call came back within the
\* second in which it was issued; the error carries the configured 3 seconds.
C7_TwoToFourPollsWhenPrompt ==
    (TimedOutOneThree /\ ~slowStatus)
        => /\ inProgressSeen >= 2
           /\ inProgressSeen <= 4
           /\ statusCalls = inProgressSeen
           /\ err = PollErr("timeout", "", 3)
           /\ cancelCalls = 1
           /\ cancelTarget = RemoteJobID

C7_Witness ==
    /\ TimedOutOneThree
    /\ ~slowStatus
    /\ inProgressSeen = 3
    /\ ~ctxCancelled
    /\ remoteStatus \notin {"completed", "failed"}

\* C8 (as stated): when the caller's cancellation fires while the select is
\* waiting between two polls, Execute returns the cancellation within one
\* poll interval, and the cancel call is issued under a context that is not
\* derived from the caller's.
C8_ReturnsWithinInterval ==
    (pc = "done" /\ ctxFired.waiting)
        => /\ err.kind = "ctx"
           /\ now - ctxFired.at <= pollInterval
           /\ cancelCalls = 1
           /\ cancelCtx.parent = "background"

\* C8 (amended): when the caller's cancellation fires while the select is
\* waiting between two polls, pollUntilComplete returns the cancellation in
\* that same instant with no further status call, the cancel call naming the
\* job is issued under a live context derived from the background context with
\* its own 10-second deadline, and Execute returns when that call comes back:
\* within the cancel call's deadline, not within one poll interval.
C8_CancellationWhileWaiting ==
    ctxFired.waiting
        => /\ pc \in {"select", "cancelling", "done"}
           /\ statusCalls = ctxFired.calls
           /\ pc = "select" => now = ctxFired.at
           /\ pc \in {"cancelling", "done"}
                => /\ err = PollErr("ctx", "", NoTime)
                   /\ result.nil
                   /\ pollEnd = ctxFired.at
                   /\ cancelCalls = 1
                   /\ cancelTarget = RemoteJobID
                   /\ cancelCtx.parent = "background"
                   /\ cancelCtx.live
                   /\ cancelCtx.deadline = ctxFired.at + CancelTimeout
                   /\ now <= ctxFired.at + CancelTimeout
           /\ (pc = "done" /\ cancelResp # "neterr") => cancelCtx.live

C8_Witness ==
    /\ pc = "done"
    /\ ctxFired.waiting
    /\ statusCalls = 1
    /\ inProgressSeen = 1
    /\ cancelResp = "ok"
    /\ now = ctxFired.at + CancelTimeout

\* C9: a 200 status response whose status is neither "completed" nor "failed"
\* (absent, or unknown to the client) is counted as in progress and takes the
\* loop back to the select: no error, no result, no cancel call; and a status
\* call is only ever issued by taking a tick from the ticker.
C9_OtherStatusKeepsPolling ==
    /\ [][(/\ pc = "checking"
           /\ pc' # "checking"
           /\ lastResp'.kind = "ok"
           /\ lastResp'.status \notin {"completed", "failed"})
            => /\ pc' = "select"
               /\ inProgressSeen' = inProgressSeen + 1
               /\ err' = NoErr
               /\ result' = NoResult
               /\ pollResult' = NoResult
               /\ pollEnd' = NoTime
               /\ cancelCalls' = 0]_vars
    /\ [][statusCalls' # statusCalls
            => (pc = "select" /\ tickPending /\ ~tickPending')]_vars

C9_Witness ==
    /\ pc = "checking"
    /\ statusCalls = 3
    /\ inProgressSeen = 2
    /\ lastResp = [kind |-> "ok", status |-> "cancelled"]

\* The same case with the status field absent from the response.
C9_WitnessAbsentStatus ==
    /\ pc = "select"
    /\ inProgressSeen = 1
    /\ lastResp = [kind |-> "ok", status |-> ""]

\* pollUntilComplete is running.
Polling == pc \in {"select", "checking"}

CompletedAtFirstPoll == ~pollResult.nil /\ statusCalls = 1

\* Execute returned (result, nil).
ReturnedSuccess == pc = "done" /\ err = NoErr /\ ~result.nil

C12_RoundTrip ==
    ReturnedSuccess =>
        /\ result.MarkdownPath = MarkdownPath
        /\ ReadFile(result.MarkdownPath) = result.Content

C12_Witness ==
    /\ ReturnedSuccess
    /\ statusCalls >= 2
    /\ result.Content = "report"
    /\ ReadFile(result.MarkdownPath) = "report"

\* C13: if the job reached "completed" but writing its content failed,
\* Execute returns the persistence error and no result; and it never returns
\* success unless the content was written and the path recorded in the
\* result.
C13_PersistenceErrorOrSaved ==
    /\ writeResult = "error" =>
          /\ pc \in {"cancelling", "done"}
          /\ lastResp.status = "completed"
          /\ result.nil
          /\ err.phase = "save"
          /\ err.kind = "persist"
    /\ ReturnedSuccess =>
          /\ writeResult = "nil"
          /\ fileContent = result.Content
          /\ result.MarkdownPath # ""

C13_Witness ==
    /\ pc = "done"
    /\ writeResult = "error"
    /\ lastResp.status = "completed"
    /\ result.nil
    /\ err.kind = "persist"

\* The last status call came back with an error.
StatusCheckErrored == lastResp.kind \in StatusResponseKinds \ {"ok"}

\* C14: a status-check failure during polling (network error, non-200 status
\* code, missing body) is fatal at its first occurrence: no further status
\* call is made, Execute returns the error, and the compensation cancel is
\* issued for the job.
C14_StatusErrorIsFatal ==
    /\ [](StatusCheckErrored =>
            /\ pc \in {"cancelling", "done"}
            /\ result.nil
            /\ err.phase = "poll"
            /\ err.kind = StatusErrKind(lastResp.kind)
            /\ cancelCalls = 1
            /\ cancelTarget = interactionID)
    /\ [][StatusCheckErrored => statusCalls' = statusCalls]_vars

C14_Witness ==
    /\ pc = "done"
    /\ lastResp.kind = "non200"
    /\ inProgressSeen >= 1
    /\ err.kind = "statuscode"
    /\ cancelCalls = 1

\* C15: when Execute returns success no cancel call was issued for the job;
\* on every other return after the job was created exactly one was.
C15_CancelExceptOnSuccess ==
    /\ ReturnedSuccess => cancelCalls = 0
    /\ (pc = "done" /\ JobStarted /\ ~ReturnedSuccess) =>
          /\ cancelCalls = 1
          /\ cancelTarget = interactionID

C15_Witness ==
    /\ ReturnedSuccess
    /\ inProgressSeen >= 1
    /\ cancelCalls = 0
    /\ cancelResp = "none"

\* C16 (as stated): once the caller's cancellation signal has fired, the
\* coordinator starts no further status call, even when a poll tick is
\* pending at the same moment.
C16_NoStatusCallAfterCancel ==
    [][ctxCancelled => statusCalls' = statusCalls]_vars

\* C16 (amended): once the caller's cancellation signal has fired, no further
\* status request is sent to the remote service.  When a poll tick is pending
\* at that moment the select may still take it and start one status call, at
\* most one; that call is made under the cancelled context, is not sent, and
\* ends polling with its error, after which the compensation cancel is issued.
C16_NoStatusRequestAfterCancel ==
    /\ [][(ctxCancelled /\ statusCalls' # statusCalls) => ~statusSent']_vars
    /\ [](ctxFired.at # NoTime => statusCalls <= ctxFired.calls + 1)
    /\ [][(pc = "checking" /\ ~statusSent /\ pc' # pc) =>
              /\ pc' = "cancelling"
              /\ result'.nil
              /\ err'.phase = "poll"
              /\ err'.kind = "transport"
              /\ cancelCalls' = 1]_vars

C16_Witness ==
    /\ pc = "done"
    /\ ctxFired.fired
    /\ ctxFired.at # NoTime
    /\ statusCalls = ctxFired.calls + 1
    /\ ~statusSent
    /\ err.kind = "transport"

\* C17: once the poll timeout has elapsed without a terminal status having
\* been observed, the coordinator starts no further status call (and so
\* returns the timeout error, never success), even when a poll tick is
\* pending at the same moment as the timeout.
C17_NoStatusCallAfterTimeout ==
    [][(pc = "select" /\ TimeoutReady /\ ~ObservedTerminal)
         => statusCalls' = statusCalls]_vars

\* C18: prompt sanitization is idempotent: sanitizing the sanitized prompt
\* yields the sanitized prompt.
C18_SanitizeIdempotent ==
    resanitized # NoInput => resanitized = sentInput

C18_Witness ==
    /\ resanitized # NoInput
    /\ sentInput # prompt
    /\ Len(sentInput) > Len(prompt)
    /\ resanitized = sentInput

\* a is b with some of its elements removed
RECURSIVE IsSubseq(_, _)
IsSubseq(a, b) ==
    IF a = <<>> THEN TRUE
    ELSE IF b = <<>> THEN FALSE
    ELSE IF Head(a) = Head(b) THEN IsSubseq(Tail(a), Tail(b))
    ELSE IsSubseq(a, Tail(b))

\* the runes a range loop over the string p yields
RECURSIVE Runes(_)
Runes(p) ==
    IF p = <<>> THEN <<>>
    ELSE LET d == DecodeRune(p)
         IN  <<d.rune>> \o Runes(SubSeq(p, d.width + 1, Len(p)))

\* the UTF-8 string spelling the runes rs
RECURSIVE Bytes(_)
Bytes(rs) == IF rs = <<>> THEN <<>> ELSE EncodeRune(Head(rs)) \o Bytes(Tail(rs))

PrintableOrSpace(r) == IsPrint(r) \/ IsSpace(r)

C20_ErrorCarriesPhaseAndJobID ==
    (pc = "done" /\ err # NoErr) =>
        /\ err.phase \in {"start", "poll", "save"}
        /\ JobStarted => err.jobID = interactionID

\* C27: within one Execute, create is issued exactly once and before every
\* status call; status calls are issued one at a time; cancel is issued at
\* most once, only after create succeeded, only with the identifier create
\* returned, and no remote operation follows it.
C27_RemoteOperationOrder ==
    /\ [][pc' = "creating" => pc \in {"start", "creating"}]_vars
    /\ [][pc # "start" => pc' # "start"]_vars
    /\ [](statusCalls > 0 => JobStarted /\ pc \notin {"start", "creating"})
    /\ [][statusCalls' # statusCalls =>
            /\ pc = "select"
            /\ pc' = "checking"
            /\ statusCalls' = statusCalls + 1]_vars
    /\ [](cancelCalls <= 1)
    /\ [](cancelCalls = 1 =>
            /\ JobStarted
            /\ interactionID = RemoteJobID
            /\ cancelTarget = interactionID)
    /\ [][cancelCalls >= 1 =>
            /\ statusCalls' = statusCalls
            /\ createSent' = createSent
            /\ cancelCalls' = cancelCalls
            /\ pc' \in {"cancelling", "done"}]_vars

C27_Witness ==
    /\ pc = "done"
    /\ statusCalls = 2
    /\ cancelCalls = 1
    /\ cancelTarget = RemoteJobID
    /\ cancelResp = "ok"

\* C28: when the job was observed "completed" but writing the content failed,
\* Execute issues the cancel for the job exactly once, against the completed
\* job, before it returns the persistence error: success is still false.
C28_CancelAfterFailedSave ==
    writeResult = "error" =>
        /\ lastResp.status = "completed"
        /\ ~success
        /\ pc \in {"cancelling", "done"}
        /\ cancelCalls = 1
        /\ cancelTarget = interactionID
        /\ err.phase = "save"
        /\ result.nil

C28_Witness ==
    /\ writeResult = "error"
    /\ pc = "done"
    /\ remoteStatus = "completed"
    /\ cancelCalls = 1
    /\ cancelResp = "ok"
    /\ err.phase = "save"

\* C29: the first status call is issued only after one full poll interval
\* has passed since polling began; so with a timeout shorter than the poll
\* interval a started Execute issues no status call, issues the cancel, and
\* returns the timeout error (the caller's cancellation error when the caller
\* cancelled first).
C29_NoImmediatePoll ==
    /\ statusCalls >= 1 => now >= pollStart + pollInterval
    /\ (JobStarted /\ pollTimeout < pollInterval) =>
          /\ statusCalls = 0
          /\ pc = "done" =>
                /\ result.nil
                /\ err.phase = "poll"
                /\ err.kind \in {"timeout", "ctx"}
                /\ ~ctxCancelled => err.kind = "timeout"
                /\ cancelCalls = 1

C29_Witness ==
    /\ pc = "done"
    /\ JobStarted
    /\ pollTimeout = 1
    /\ pollInterval = 2
    /\ pollEnd = pollStart + 1
    /\ statusCalls = 0
    /\ err.kind = "timeout"
    /\ cancelCalls = 1

\* C30: the poll timeout is read only between status calls and never ends
\* one in flight: while a status call is outstanding no timeout error is
\* returned, and when the call that outlived the timeout reports "completed"
\* Execute goes on to save and, the content saved, returns success and issues
\* no cancel.
C30_TimeoutNeverInterruptsCall ==
    /\ [][pc = "checking" =>
            /\ err'.kind # "timeout"
            /\ pc' \in {"checking", "select", "saving", "cancelling"}]_vars
    /\ [][(pc = "checking" /\ pc' # "checking") => lastResp'.kind # "none"]_vars
    /\ []((pc = "done" /\ lastResp.status = "completed" /\ pollEnd > deadline
             /\ writeResult = "nil") =>
              /\ ReturnedSuccess
              /\ cancelCalls = 0)

C30_Witness ==
    /\ ReturnedSuccess
    /\ pollInterval = 1
    /\ pollTimeout = 2
    /\ statusCalls = 1
    /\ pollEnd = pollStart + 3
    /\ cancelCalls = 0

\* C26: every Execute invocation eventually returns, even if the remote
\* status never becomes terminal and the caller never cancels, provided the
\* timers fire and every remote call eventually returns.
C26_EventuallyReturns == <>(pc = "done")

C26_Witness ==
    /\ pc = "done"
    /\ ~ctxCancelled
    /\ remoteStatus = "in_progress"
    /\ inProgressSeen >= 2
    /\ err.kind = "timeout"
    /\ cancelResp = "neterr"

\* C22: the poll interval and poll timeout the coordinator is configured with
\* come from the environment variable documented for each
\* (GEMINI_POLL_INTERVAL, GEMINI_POLL_TIMEOUT) when it is set, otherwise from
\* the config file, otherwise from the defaults 10 and 600.
C22_DocumentedSources ==
    config.loaded = "ok" =>
        /\ config.PollInterval =
              Lookup("poll_interval", DocumentedEnvKey("poll_interval"))
        /\ config.PollTimeout =
              Lookup("poll_timeout", DocumentedEnvKey("poll_timeout"))

\* C23: in the pipeline research and image generation never overlap; with
\* research enabled image generation starts only after Execute returned
\* success, and when Execute returns an error the pipeline returns that error
\* and image generation is never started.
C23_StagesNeverOverlap ==
    /\ ~(pipe.researchRunning /\ pipe.imageRunning)
    /\ (pipe.imageCalls > 0 /\ ~opts.ImageOnly) =>
          /\ pipe.researchCalls = 1
          /\ pipe.researchOutcome = "ok"
    /\ pipe.researchOutcome = "err" =>
          /\ pipe.pc = "returned"
          /\ pipe.ret = "research"
          /\ pipe.imageCalls = 0

C23_Witness ==
    /\ pipe.pc = "returned"
    /\ pipe.researchCalls = 1
    /\ pipe.researchOutcome = "err"
    /\ pipe.ret = "research"
    /\ ~opts.ResearchOnly
    /\ pipe.imageCalls = 0

\* the value the command line gives the flags named in names: that of the
\* last of them on the line, false when none is there
FlagSet(names) ==
    LET at == {i \in 1..Len(cmdline) : cmdline[i].flag \in names}
    IN  /\ at # {}
        /\ cmdline[CHOOSE i \in at : \A j \in at : j <= i].value

\* C24: the research stage runs if and only if --image-only is not set and
\* the image stage if and only if --research-only (alias --no-image) is not
\* set: research-only makes no image request, image-only creates no research
\* job, and with both set neither stage runs and the pipeline returns success.
C24_StageSelection ==
    pipe.pc \notin {"idle", "parse"} =>
        /\ opts.ImageOnly = FlagSet({"image-only"})
        /\ opts.ResearchOnly = FlagSet({"research-only", "no-image"})
        /\ opts.ResearchOnly => pipe.imageCalls = 0
        /\ opts.ImageOnly => pipe.researchCalls = 0
        /\ (pipe.pc = "returned" /\ pipe.ret = "nil") =>
              /\ pipe.researchCalls = (IF opts.ImageOnly THEN 0 ELSE 1)
              /\ pipe.imageCalls = (IF opts.ResearchOnly THEN 0 ELSE 1)
        /\ (pipe.pc = "returned" /\ opts.ImageOnly /\ opts.ResearchOnly) =>
              pipe.ret \in {"nil", "setup"}

C24_Witness ==
    /\ pipe.pc = "returned"
    /\ cmdline = <<[flag |-> "image-only", value |-> TRUE],
                   [flag |-> "no-image", value |-> TRUE]>>
    /\ pipe.researchCalls = 0
    /\ pipe.imageCalls = 0
    /\ pipe.ret = "nil"

\* the positions of the text-typed segments of the response
TextTyped == {i \in 1..Len(outputs.items) : outputs.items[i].type = "text"}

\* the positions of the text-typed segments that carry a text
TextCarrying == {i \in TextTyped : outputs.items[i].text # NoText}

\* the least position of the non-empty set S
First(S) == CHOOSE i \in S : \A j \in S : i <= j

\* C25 (as stated): the content is the text of the first text-typed segment
\* of the output collection (nothing when that segment has no text); later
\* text segments are ignored; the content is empty when no segment is
\* text-typed.
C25_FirstTextTypedSegment ==
    content # NoContent =>
        content = IF TextTyped = {} THEN ""
                  ELSE IF outputs.items[First(TextTyped)].text = NoText THEN ""
                  ELSE outputs.items[First(TextTyped)].text

\* C25 (amended): the content is the text of the first segment, in
\* collection order, that is text-typed and carries a text (an empty text
\* counts): segments before it, of another type or text-typed without a
\* text, are skipped, later segments are ignored, and the content is empty
\* when there is no such segment or no output collection.
C25_FirstSegmentCarryingText ==
    content # NoContent =>
        content = IF TextCarrying = {} THEN ""
                  ELSE outputs.items[First(TextCarrying)].text

C25_Witness ==
    /\ outputs.present
    /\ outputs.items = <<[type |-> "image", text |-> NoText],
                         [type |-> "text", text |-> NoText],
                         [type |-> "text", text |-> "a"]>>
    /\ content = "a"

\* identifier id is that of a job created by invocation i's own create call
OwnJob(i, id) == id \in JobIDs /\ jobs[id].owner = i

\* C21: concurrent Execute invocations do not interfere: each keeps only the
\* identifier its own create call returned, every status and cancel call it
\* issues names that identifier, and what it returns follows from its own
\* job: completed with that job's text, failed when that job failed; a job
\* is cancelled only by the invocation that created it.
C21_InvocationsDoNotInterfere ==
    /\ \A i \in Invocations :
          /\ inv[i].interactionID # NoJob => OwnJob(i, inv[i].interactionID)
          /\ inv[i].statusTarget # NoJob =>
                /\ inv[i].statusTarget = inv[i].interactionID
                /\ OwnJob(i, inv[i].statusTarget)
          /\ inv[i].cancelTarget # NoJob =>
                /\ inv[i].cancelTarget = inv[i].interactionID
                /\ OwnJob(i, inv[i].cancelTarget)
          /\ inv[i].outcome = "completed" =>
                /\ jobs[inv[i].interactionID].status = "completed"
                /\ inv[i].content = JobContent(inv[i].interactionID)
                /\ inv[i].cancelTarget = NoJob
                /\ (\A k \in Invocations \ {i} :
                       inv[k].timestamp # inv[i].timestamp) =>
                      files[inv[i].timestamp] = inv[i].content
          /\ inv[i].outcome = "failed" =>
                jobs[inv[i].interactionID].status = "failed"
    /\ \A i, k \in Invocations :
          (i # k /\ inv[i].interactionID # NoJob) =>
              inv[i].interactionID # inv[k].interactionID
    /\ \A j \in JobIDs :
          jobs[j].status = "cancelled" =>
              /\ inv[jobs[j].owner].cancelTarget = j
              /\ inv[jobs[j].owner].outcome \notin {"none", "completed"}

C21_Witness ==
    /\ inv[1].pc = "done"
    /\ inv[2].pc = "done"
    /\ inv[1].interactionID = 2
    /\ inv[2].interactionID = 1
    /\ inv[1].outcome = "completed"
    /\ inv[1].content = JobContent(2)
    /\ inv[2].outcome = "timedout"
    /\ inv[2].cancelTarget = 1
    /\ jobs[1].status = "cancelled"
    /\ jobs[2].status = "completed"

====
